---- MODULE Spec2Model ----
(***************************************************************************)
(* Order-status lookup endpoint (netlify/functions/get-order.js).          *)
(*                                                                         *)
(* One invocation of exports.handler is modelled as a state machine.  The  *)
(* synchronous code between two awaits is one action; every upstream call  *)
(* (ShipStation order search, ShipStation shipment listing, 17track        *)
(* gettrackinfo / register) is an action whose answer is drawn from a      *)
(* small pool of responses.                                                *)
(*                                                                         *)
(* JavaScript values are modelled by strings, with two distinguished       *)
(* values: Null (null / undefined / absent field) and NonString (a truthy  *)
(* value that is not a string, e.g. a number or an object, on which        *)
(* .toLowerCase() / .trim() raise a TypeError).                            *)
(***************************************************************************)
EXTENDS Naturals, Sequences, FiniteSets, TLC

\* ------------------------------------------------------------------ bounds
MaxShipments == 2
MaxOrders == 2

TickMs == 5000
MaxElapsedMs == 30000
MaxFanOut == 3

\* ------------------------------------------------------- program constants
PollAttempts == 3
TimeoutMs == 15000

\* ------------------------------------------------------------- JS values
Null == "<null>"
NonString == "<nonstring>"

Truthy(v) == v # Null /\ v # ""

IsString(v) == v # Null /\ v # NonString

\* String.prototype.toLowerCase over the strings the model uses; a string
\* with no upper-case letter is its own image.
ToLower(s) ==
  CASE s = "Delivered" -> "delivered"
    [] s = "DELIVERED" -> "delivered"
    [] s = "InTransit" -> "intransit"
    [] s = "NotFound" -> "notfound"
    [] s = "InfoReceived" -> "inforeceived"
    [] s = "Shipped" -> "shipped"
    [] s = "On_Hold" -> "on_hold"
    [] s = "InTransit_PickedUp" -> "intransit_pickedup"
    [] s = "Delivered_Other" -> "delivered_other"
    [] s = "NotFound_Other" -> "notfound_other"
    [] s = "InTransit_Picked_Up" -> "intransit_picked_up"
    [] s = "A@B.com" -> "a@b.com"
    [] s = "UPS" -> "ups"
    [] s = "Acme Post" -> "acme post"
    [] s = "IN_TRANSIT" -> "in_transit"
    [] s = "PickUp" -> "pickup"
    [] s = "Picked_Up" -> "picked_up"
    [] s = "PICKED_UP" -> "picked_up"
    [] s = "Undelivered" -> "undelivered"
    [] s = "EXCEPTION" -> "exception"
    [] s = "Alert" -> "alert"
    [] s = "Pending" -> "pending"
    [] s = "Info_Received" -> "info_received"
    [] s = "Not_Found" -> "not_found"
    [] s = "Expired" -> "expired"
    [] s = "Picked up by carrier" -> "picked up by carrier"
    [] s = "FedEx" -> "fedex"
    [] s = "USPS" -> "usps"
    [] s = "Stamps_Com" -> "stamps_com"
    [] OTHER -> s

\* String.prototype.includes(needle) on the lower-cased strings of the model.
Includes(s, needle) ==
  CASE needle = "delivered" ->
         s \in {"delivered", "delivered_other", "undelivered"}
    [] needle = "pickedup" -> s \in {"intransit_pickedup"}
    [] needle = "picked_up" -> s \in {"picked_up", "intransit_picked_up"}
    [] needle = "ups" -> s \in {"ups"}
    [] OTHER -> s = needle

\* ------------------------------------------------------------- messages
MsgMethod == "Method not allowed"
MsgFormat == "Invalid request format"
MsgRequired == "Order number and email are required"
MsgEmpty == "Order number and email cannot be empty"
MsgEmail == "Invalid email format"
MsgShort == "Order number must be at least 3 characters"
MsgConfig == "Server configuration error"
MsgNotFound == "Order not found. Please check your order number and email address and try again."
MsgGeneric == "Unable to retrieve order information. Please try again."

\* error.message of what the handler's catches receive.
MsgTypeError == "TypeError"
MsgTimeout == "Request timeout"
MsgNetwork == "Network error"
MsgInvalid == "Invalid response from ShipStation"
MsgApiError == "ShipStation API error"

\* ------------------------------------------------------- platform helpers

\* checkShipmentDeliveryStatus raises a TypeError when it reaches a truthy
\* shipmentStatus / trackingStatus that is not a string.
CheckDeliveryThrows(shipment) ==
  /\ ~Truthy(shipment.deliveryDate)
  /\ ~Truthy(shipment.voidDate)
  /\ \/ shipment.shipmentStatus = NonString
     \/ /\ ~(Truthy(shipment.shipmentStatus)
             /\ ToLower(shipment.shipmentStatus) = "delivered")
        /\ shipment.trackingStatus = NonString

\* checkShipmentDeliveryStatus without the voidDate test.
checkShipmentDeliveryStatusIgnoresVoid(shipment) ==
  IF Truthy(shipment.deliveryDate) THEN TRUE
  ELSE IF Truthy(shipment.shipmentStatus) /\ IsString(shipment.shipmentStatus)
          /\ ToLower(shipment.shipmentStatus) = "delivered" THEN TRUE
  ELSE IF Truthy(shipment.trackingStatus) /\ IsString(shipment.trackingStatus)
          /\ Includes(ToLower(shipment.trackingStatus), "delivered") THEN TRUE
  ELSE FALSE

checkShipmentDeliveryStatus(shipment) ==
  IF Truthy(shipment.deliveryDate) THEN TRUE
  ELSE IF Truthy(shipment.voidDate) THEN FALSE
  ELSE IF Truthy(shipment.shipmentStatus) /\ IsString(shipment.shipmentStatus)
          /\ ToLower(shipment.shipmentStatus) = "delivered" THEN TRUE
  ELSE IF Truthy(shipment.trackingStatus) /\ IsString(shipment.trackingStatus)
          /\ Includes(ToLower(shipment.trackingStatus), "delivered") THEN TRUE
  ELSE FALSE

UrlCarriers ==
  {"ups", "ups_ground", "fedex", "fedex_express", "fedex_ground", "usps",
   "stamps_com", "dhl", "dhl_express", "ontrac", "lasership", "amazon"}

\* The carrier generateTrackingUrl builds the URL for: the 17track carrier
\* name when it names a known carrier, else the platform's carrier code.
\* Of the provider names of the model only "UPS" names a known carrier.
CarrierForUrl(carrierCode, carrier17trackName) ==
  IF Truthy(carrier17trackName) /\ IsString(carrier17trackName)
     /\ Includes(ToLower(carrier17trackName), "ups")
  THEN "ups"
  ELSE carrierCode

GenerateUrlThrows(carrierCode, trackingNumber, carrier17trackName) ==
  /\ Truthy(trackingNumber)
  /\ \/ carrier17trackName = NonString
     \/ CarrierForUrl(carrierCode, carrier17trackName) = NonString

\* The result names the carrier whose tracking page the URL points to.
generateTrackingUrl(carrierCode, trackingNumber, carrier17trackName) ==
  LET c == CarrierForUrl(carrierCode, carrier17trackName) IN
  IF ~Truthy(trackingNumber) THEN Null
  ELSE IF ~Truthy(c) \/ ~IsString(c) THEN Null
  ELSE IF ToLower(c) \in UrlCarriers THEN ToLower(c)
  ELSE Null

CarrierNameThrows(carrierCode) == carrierCode = NonString

getStandardCarrierName(carrierCode) ==
  IF ~Truthy(carrierCode) \/ ~IsString(carrierCode) THEN "CARRIER"
  ELSE CASE ToLower(carrierCode) \in {"ups", "ups_ground"} -> "UPS"
         [] ToLower(carrierCode) \in {"fedex", "fedex_express", "fedex_ground"} -> "FedEx"
         [] ToLower(carrierCode) \in {"usps", "stamps_com"} -> "USPS"
         [] ToLower(carrierCode) \in {"dhl", "dhl_express"} -> "DHL"
         [] ToLower(carrierCode) = "ontrac" -> "OnTrac"
         [] ToLower(carrierCode) = "lasership" -> "LaserShip"
         [] ToLower(carrierCode) = "amazon" -> "Amazon"
         [] ToLower(carrierCode) = "newgistics" -> "Newgistics"
         \* carrierCode.toUpperCase() for a code outside the table
         [] ToLower(carrierCode) = "acme" -> "ACME"
         [] OTHER -> carrierCode

\* ------------------------------------------------------ 17track evidence

\* A gettrackinfo answer: accepted = data.accepted is non-empty; status,
\* sub_status = accepted[0].track_info.latest_status.*; time_iso =
\* track_info.latest_event.time_iso; provider =
\* track_info.tracking.providers[0].provider.name.
TrackInfo(acc, st, sub, time, prov) ==
  [accepted |-> acc, status |-> st, sub_status |-> sub, time_iso |-> time,
   provider |-> prov]

NoTrackingData == TrackInfo(FALSE, Null, Null, Null, Null)

\* HasValidData with the latest status of the answer never looked at.
HasValidDataNever(trackingData) == FALSE

\* hasValidData: data.accepted[0].track_info.latest_status.status is truthy.
HasValidData(trackingData) ==
  trackingData.accepted /\ Truthy(trackingData.status)

get17trackCarrierName(trackingData) ==
  IF trackingData.accepted THEN trackingData.provider ELSE Null

\* StatusShipped with the problem statuses (undelivered, exception, alert)
\* taken for label-only.
StatusShippedScansOnly(lower) ==
  lower \in {"delivered", "intransit", "in_transit", "pickup", "picked_up"}

\* The switch on trackingStatus.toLowerCase().
StatusShipped(lower) ==
  lower \in {"delivered", "intransit", "in_transit", "pickup", "picked_up",
             "undelivered", "exception", "alert"}

StatusDelivered(lower) == lower = "delivered"

\* SubStatusPickedUp with the second spelling lost.
SubStatusPickedUpOneSpelling(subStatus) ==
  LET sub == IF Truthy(subStatus) THEN subStatus ELSE "" IN
  Includes(ToLower(sub), "pickedup")

SubStatusPickedUp(subStatus) ==
  LET sub == IF Truthy(subStatus) THEN subStatus ELSE "" IN
  \/ Includes(ToLower(sub), "pickedup")
  \/ Includes(ToLower(sub), "picked_up")

\* Step 4 raises a TypeError on a truthy status or sub_status that is not a
\* string; the per-shipment catch takes it.
ClassifyThrows(hasValidData, trackingData) ==
  /\ hasValidData
  /\ trackingData.status = NonString \/ trackingData.sub_status = NonString

\* An element of trackedShipments: the raw shipment's fields ({...shipment})
\* overlaid with the evidence fields.  outcome records which of the three
\* pushes of getShipmentsWithTracking built the element, subStatus the
\* latest_status.sub_status of the answer the element was built from.
Tracked(shipment, shipped, delivered, date, status, name, how, sub) ==
  [shipmentId |-> shipment.shipmentId,
   trackingNumber |-> shipment.trackingNumber,
   carrierCode |-> shipment.carrierCode,
   deliveryDate |-> date,
   actuallyShipped |-> shipped,
   isDelivered |-> delivered,
   trackingStatus |-> status,
   carrier17trackName |-> name,
   outcome |-> how,
   subStatus |-> sub]

\* The record pushed for a shipment whose verification ran to the end.
VerifiedShipment(shipment, hasValidData, trackingData) ==
  LET lower == ToLower(trackingData.status)
      shipped == /\ hasValidData
                 /\ StatusShipped(lower) \/ SubStatusPickedUp(trackingData.sub_status)
      delivered == hasValidData /\ StatusDelivered(lower)
      date == IF delivered /\ Truthy(trackingData.time_iso)
              THEN trackingData.time_iso ELSE shipment.deliveryDate
  IN Tracked(shipment, shipped, delivered, date,
             IF hasValidData THEN trackingData.status ELSE "",
             get17trackCarrierName(trackingData), "verified",
             trackingData.sub_status)

\* FallbackShipment failing closed: the shipment is taken for not shipped.
FallbackShipmentFailClosed(shipment) ==
  Tracked(shipment, FALSE, checkShipmentDeliveryStatus(shipment),
          shipment.deliveryDate, "error", Null, "error", Null)

\* The record pushed by the per-shipment catch (fail open).
FallbackShipment(shipment) ==
  Tracked(shipment, TRUE, checkShipmentDeliveryStatus(shipment),
          shipment.deliveryDate, "error", Null, "error", Null)

\* UntrackedShipment failing open like the per-shipment catch.
UntrackedShipmentFailOpen(shipment) ==
  Tracked(shipment, TRUE, checkShipmentDeliveryStatus(shipment),
          shipment.deliveryDate, "", Null, "no_tracking_number", Null)

\* The record pushed for a shipment without a tracking number.
UntrackedShipment(shipment) ==
  Tracked(shipment, FALSE, FALSE, shipment.deliveryDate, "", Null,
          "no_tracking_number", Null)

\* ------------------------------------------------------ response assembly

OrNull(v) == IF Truthy(v) THEN v ELSE Null

shipmentStatus(t) ==
  IF t.isDelivered THEN "delivered"
  ELSE IF t.actuallyShipped THEN "shipped"
  ELSE "processing"

\* The element the handler pushes for trackedShipments[index] (index from 1).
TrackedEntry(t, index, total) ==
  [shipmentId |-> t.shipmentId,
   trackingNumber |-> t.trackingNumber,
   trackingUrl |-> generateTrackingUrl(t.carrierCode, t.trackingNumber,
                                       t.carrier17trackName),
   carrierName |-> getStandardCarrierName(t.carrierCode),
   deliveryDate |-> OrNull(t.deliveryDate),
   isDelivered |-> t.isDelivered,
   shipmentNumber |-> index,
   totalShipments |-> total,
   status |-> shipmentStatus(t),
   trackingStatus |-> t.trackingStatus]

\* The element the platform-only loops push for shipmentData.shipments[index].
PlatformEntry(shipment, index, total) ==
  [shipmentId |-> shipment.shipmentId,
   trackingNumber |-> shipment.trackingNumber,
   trackingUrl |-> generateTrackingUrl(shipment.carrierCode,
                                       shipment.trackingNumber, Null),
   carrierName |-> getStandardCarrierName(shipment.carrierCode),
   deliveryDate |-> OrNull(shipment.deliveryDate),
   isDelivered |-> checkShipmentDeliveryStatus(shipment),
   shipmentNumber |-> index,
   totalShipments |-> total,
   status |-> Null,
   trackingStatus |-> Null]

TrackedEntryThrows(t) ==
  \/ GenerateUrlThrows(t.carrierCode, t.trackingNumber, t.carrier17trackName)
  \/ CarrierNameThrows(t.carrierCode)

PlatformEntryThrows(shipment) ==
  \/ GenerateUrlThrows(shipment.carrierCode, shipment.trackingNumber, Null)
  \/ CarrierNameThrows(shipment.carrierCode)
  \/ CheckDeliveryThrows(shipment)

\* Index of the first element on which the forEach callback raises, or
\* Len + 1 when the loop runs to the end.
FirstTrackedThrow(tracked) ==
  LET bad == {k \in 1..Len(tracked) : TrackedEntryThrows(tracked[k])} IN
  IF bad = {} THEN Len(tracked) + 1
  ELSE CHOOSE k \in bad : \A j \in bad : k <= j

FirstPlatformThrow(raw) ==
  LET bad == {k \in 1..Len(raw) : PlatformEntryThrows(raw[k])} IN
  IF bad = {} THEN Len(raw) + 1
  ELSE CHOOSE k \in bad : \A j \in bad : k <= j

\* What the tracked forEach has pushed when it stops.
TrackedEntries(tracked) ==
  [k \in 1..(FirstTrackedThrow(tracked) - 1) |->
     TrackedEntry(tracked[k], k, Len(tracked))]

\* What a platform-only forEach has pushed when it stops.
PlatformEntries(raw) ==
  [k \in 1..(FirstPlatformThrow(raw) - 1) |->
     PlatformEntry(raw[k], k, Len(raw))]

\* AggregateStatus with the partial case lost: any delivered shipment makes
\* the order delivered.
AggregateStatusAnyDelivered(tracked, rawStatus) ==
  IF \E k \in 1..Len(tracked) : tracked[k].isDelivered THEN "delivered"
  ELSE IF \E k \in 1..Len(tracked) : tracked[k].actuallyShipped THEN "shipped"
  ELSE IF Len(tracked) > 0 THEN "awaiting_fulfillment"
  ELSE rawStatus

\* AggregateStatus with the in-transit case asking for every shipment to be
\* scanned instead of one.
AggregateStatusAllShipped(tracked, rawStatus) ==
  LET hasDeliveredShipments == \E k \in 1..Len(tracked) : tracked[k].isDelivered
  IN IF hasDeliveredShipments
        /\ \A k \in 1..Len(tracked) : tracked[k].isDelivered
     THEN "delivered"
     ELSE IF hasDeliveredShipments THEN "partially_delivered"
     ELSE IF \A k \in 1..Len(tracked) : tracked[k].actuallyShipped THEN "shipped"
     ELSE IF Len(tracked) > 0 THEN "awaiting_fulfillment"
     ELSE rawStatus

\* The overall order status decided from the 17track evidence.
AggregateStatus(tracked, rawStatus) ==
  LET hasDeliveredShipments == \E k \in 1..Len(tracked) : tracked[k].isDelivered
      hasInTransitShipments ==
        \E k \in 1..Len(tracked) :
          ~tracked[k].isDelivered /\ tracked[k].actuallyShipped
      hasActuallyShippedShipments == hasInTransitShipments
  IN IF hasDeliveredShipments
        /\ \A k \in 1..Len(tracked) : tracked[k].isDelivered
     THEN "delivered"
     ELSE IF hasDeliveredShipments THEN "partially_delivered"
     ELSE IF hasInTransitShipments THEN "shipped"
     ELSE IF Len(tracked) > 0 /\ ~hasActuallyShippedShipments
     THEN "awaiting_fulfillment"
     ELSE rawStatus

\* ------------------------------------------------------------- request

\* String.prototype.trim over the request strings of the model.
Trim(s) ==
  CASE s = " ABC123 " -> "ABC123"
    [] s = "   " -> ""
    [] s = " AB " -> "AB"
    [] OTHER -> s

\* cleanOrderNumber.length < 3
ShorterThan3(s) == s \in {"", "A", "AB"}

\* /^[^\s@]+@[^\s@]+\.[^\s@]+$/.test(s)
emailRegex(s) == s \in {"a@b.com", "A@B.com", "z@z.com"}

\* event.body: Malformed is text JSON.parse rejects; Absent is a missing or
\* empty body (parsed as '{}'); JsonNull and JsonNumber are the JSON texts
\* null and 5; an object body carries the two fields.
Body(kind, orderNumber, email) ==
  [kind |-> kind, orderNumber |-> orderNumber, email |-> email]

Bodies ==
  {Body("malformed", Null, Null), Body("absent", Null, Null),
   Body("null", Null, Null), Body("number", Null, Null),
   Body("object", " ABC123 ", "A@B.com"),
   Body("object", Null, "A@B.com"),
   Body("object", " ABC123 ", Null),
   Body("object", NonString, "A@B.com"),
   Body("object", " ABC123 ", NonString),
   Body("object", "   ", "A@B.com"),
   Body("object", " AB ", "A@B.com"),
   Body("object", " ABC123 ", "nope")}

Requests ==
  {[httpMethod |-> "OPTIONS", body |-> Body("absent", Null, Null)],
   [httpMethod |-> "GET", body |-> Body("absent", Null, Null)],
   [httpMethod |-> "OPTIONS", body |-> Body("malformed", Null, Null)],
   [httpMethod |-> "GET", body |-> Body("malformed", Null, Null)]}
  \cup {[httpMethod |-> "POST", body |-> b] : b \in Bodies}

\* process.env: which of the three credentials are set, and NODE_ENV.
Envs ==
  [SHIPSTATION_API_KEY : BOOLEAN, SHIPSTATION_API_SECRET : BOOLEAN,
   SEVENTEEN_TRACK_API_KEY : BOOLEAN, NODE_ENV : {"production", "development"}]

\* process.env with both ShipStation credentials.
Env(tracking, mode) ==
  [SHIPSTATION_API_KEY |-> TRUE, SHIPSTATION_API_SECRET |-> TRUE,
   SEVENTEEN_TRACK_API_KEY |-> tracking, NODE_ENV |-> mode]

ErrorResponse(code, message) ==
  [statusCode |-> code, body |-> "error", error |-> message, debug |-> Null,
   orderStatus |-> Null, shipments |-> <<>>]

\* CaughtResponse with error.message as the error text.
CaughtResponseRaw(e, message) ==
  [statusCode |-> 500, body |-> "error", error |-> message, debug |-> Null,
   orderStatus |-> Null, shipments |-> <<>>]

\* The response of the top-level catch: the generic message, and
\* error.message as debug when NODE_ENV is development.
CaughtResponse(e, message) ==
  [statusCode |-> 500, body |-> "error", error |-> MsgGeneric,
   debug |-> IF e.NODE_ENV = "development" THEN message ELSE Null,
   orderStatus |-> Null, shipments |-> <<>>]

\* OrderResponse without the toLowerCase() of the status.
OrderResponseVerbatim(status, ships) ==
  [statusCode |-> 200, body |-> "order", error |-> Null, debug |-> Null,
   orderStatus |-> status, shipments |-> ships]

OrderResponse(status, ships) ==
  [statusCode |-> 200, body |-> "order", error |-> Null, debug |-> Null,
   orderStatus |-> ToLower(status), shipments |-> ships]

NoResponse ==
  [statusCode |-> 0, body |-> "none", error |-> Null, debug |-> Null,
   orderStatus |-> Null, shipments |-> <<>>]

\* The preflight response.
PreflightResponse ==
  [statusCode |-> 200, body |-> "empty", error |-> Null, debug |-> Null,
   orderStatus |-> Null, shipments |-> <<>>]

\* CredentialsMissing asking for the 17track key as well.
CredentialsMissingAny(e) ==
  ~e.SHIPSTATION_API_KEY \/ ~e.SHIPSTATION_API_SECRET
  \/ ~e.SEVENTEEN_TRACK_API_KEY

\* !apiKey || !apiSecret
CredentialsMissing(e) == ~e.SHIPSTATION_API_KEY \/ ~e.SHIPSTATION_API_SECRET

\* The handler from the destructuring of the parsed body b to the credential
\* check: the response it returns, or NoResponse when the request goes on to
\* the order search.
ValidateFields(b, e) ==
  LET cleanOrderNumber == Trim(b.orderNumber)
      cleanEmail == Trim(b.email)
  IN
  IF b.kind = "null" THEN CaughtResponse(e, MsgTypeError)
  ELSE IF ~Truthy(b.orderNumber) \/ ~Truthy(b.email)
  THEN ErrorResponse(400, MsgRequired)
  ELSE IF b.orderNumber = NonString \/ b.email = NonString
  THEN CaughtResponse(e, MsgTypeError)
  ELSE IF ~Truthy(cleanOrderNumber) \/ ~Truthy(cleanEmail)
  THEN ErrorResponse(400, MsgEmpty)
  ELSE IF ~emailRegex(cleanEmail) THEN ErrorResponse(400, MsgEmail)
  ELSE IF ShorterThan3(cleanOrderNumber) THEN ErrorResponse(400, MsgShort)
  ELSE IF CredentialsMissing(e) THEN ErrorResponse(500, MsgConfig)
  ELSE NoResponse

\* Validate with the body parsed before the method is looked at.
ValidateParsesFirst(r, e) ==
  IF r.body.kind = "malformed" THEN ErrorResponse(400, MsgFormat)
  ELSE IF r.httpMethod = "OPTIONS" THEN PreflightResponse
  ELSE IF r.httpMethod # "POST" THEN ErrorResponse(405, MsgMethod)
  ELSE ValidateFields(r.body, e)

\* Validate without the try around JSON.parse: the SyntaxError reaches the
\* top-level catch.
ValidateParseEscapes(r, e) ==
  IF r.httpMethod = "OPTIONS" THEN PreflightResponse
  ELSE IF r.httpMethod # "POST" THEN ErrorResponse(405, MsgMethod)
  ELSE IF r.body.kind = "malformed" THEN CaughtResponse(e, MsgFormat)
  ELSE ValidateFields(r.body, e)

\* The handler up to the first upstream call: the response it returns, or
\* NoResponse when the request goes on to the order search.
Validate(r, e) ==
  IF r.httpMethod = "OPTIONS" THEN PreflightResponse
  ELSE IF r.httpMethod # "POST" THEN ErrorResponse(405, MsgMethod)
  ELSE IF r.body.kind = "malformed" THEN ErrorResponse(400, MsgFormat)
  ELSE ValidateFields(r.body, e)

\* ------------------------------------------------------- upstream answers

Order(orderNumber, customerEmail, orderStatus) ==
  [orderNumber |-> orderNumber, customerEmail |-> customerEmail,
   orderStatus |-> orderStatus]

RawStatuses == {"shipped", "awaiting_shipment", "On_Hold"}

\* Rows the order search may return: the order itself in each raw status and
\* loosely matching rows (other case, other email, longer number, no email).
OrderPool ==
  {Order("ABC123", "a@b.com", st) : st \in RawStatuses}
  \cup {Order("abc123", "a@b.com", "shipped"),
        Order("ABC123", "z@z.com", "shipped"),
        Order("ABC1234", "a@b.com", "shipped"),
        Order("ABC123", Null, "shipped")}

SeqsUpTo(S, n) == UNION {[1..k -> S] : k \in 0..n}

RawShipment(tn, delivery, void, sstatus, tstatus, carrier) ==
  [shipmentId |-> 0, trackingNumber |-> tn, deliveryDate |-> delivery,
   voidDate |-> void, shipmentStatus |-> sstatus, trackingStatus |-> tstatus,
   carrierCode |-> carrier]

\* Shipments the listing may return: a plain label, one with a platform
\* delivery date, one without tracking number, a voided one, one whose
\* carrierCode is not a string, one whose shipmentStatus is not a string.
ShipmentPool ==
  {RawShipment("T", Null, Null, Null, Null, "ups"),
   RawShipment("T", "2024-01-05", Null, Null, Null, "UPS"),
   RawShipment(Null, Null, Null, Null, Null, "acme"),
   RawShipment("T", Null, "2024-01-02", "Delivered", Null, Null),
   RawShipment("T", Null, Null, Null, Null, NonString),
   RawShipment("T", Null, Null, NonString, Null, "ups")}

\* shipmentData.shipments: the shipmentId of an element is its position.
ShipmentLists ==
  {[k \in 1..Len(l) |-> [l[k] EXCEPT !.shipmentId = k]] :
     l \in SeqsUpTo(ShipmentPool, MaxShipments)}

\* gettrackinfo answers.
TrackAnswers ==
  {NoTrackingData,
   TrackInfo(TRUE, Null, Null, Null, Null),
   TrackInfo(TRUE, "Delivered", "Delivered_Other", "2024-01-09", "UPS"),
   TrackInfo(TRUE, "InTransit", "InTransit_PickedUp", Null, "UPS"),
   TrackInfo(TRUE, "NotFound", "NotFound_Other", Null, Null),
   TrackInfo(TRUE, "InfoReceived", "InTransit_PickedUp", Null, "Acme Post"),
   TrackInfo(TRUE, "InTransit", Null, Null, NonString)}

\* --------------------------------------------------- upstream transport

HttpStatuses == {200, 404, 401, 429, 500, 503}

\* new Promise(...), https.request(...), req.end(): one request is sent.
IssueCall(api) ==
  [api |-> api, state |-> "pending", value |-> Null, status |-> 0,
   requests |-> 1, ended |-> FALSE, errored |-> FALSE, destroyed |-> FALSE,
   elapsed |-> 0, idle |-> 0]

\* resolve(...) / reject(...): the first call settles the promise, a later
\* one has no effect.
Settle(c, st, v) ==
  IF c.state = "pending" THEN [c EXCEPT !.state = st, !.value = v] ELSE c

\* ShipStationEnd without the 404 case.
ShipStationEndNo404(c, parses) ==
  IF c.status = 200
  THEN IF parses THEN Settle(c, "resolved", "data")
       ELSE Settle(c, "rejected", "invalid_response")
  ELSE Settle(c, "rejected", "api_error")

\* The res.on('end') callback of makeShipStationRequest.
ShipStationEnd(c, parses) ==
  IF c.status = 200
  THEN IF parses THEN Settle(c, "resolved", "data")
       ELSE Settle(c, "rejected", "invalid_response")
  ELSE IF c.status = 404 THEN Settle(c, "resolved", "empty")
  ELSE Settle(c, "rejected", "api_error")

\* The res.on('end') callback of makeSeventeenTrackV22Request.
SeventeenTrackEnd(c, parses) ==
  IF c.status = 200
  THEN IF parses THEN Settle(c, "resolved", "data")
       ELSE Settle(c, "rejected", "invalid_response")
  ELSE Settle(c, "rejected", "api_error")

\* What a ShipStation call meets: no answer in time, a connection error, or
\* a response with its status and whether JSON.parse accepts its body.
Answer(kind, status, parses) ==
  [kind |-> kind, status |-> status, parses |-> parses]

NoAnswer == Answer("none", 0, FALSE)

FulfillmentAnswers ==
  {Answer("timeout", 0, FALSE), Answer("network", 0, FALSE),
   Answer("response", 200, TRUE), Answer("response", 200, FALSE)}
  \cup {Answer("response", st, FALSE) : st \in HttpStatuses \ {200}}

\* The promise makeShipStationRequest returns, settled by the answer a.
makeShipStationRequest(a) ==
  LET c == IssueCall("shipstation") IN
  IF a.kind = "timeout"
  THEN Settle([c EXCEPT !.destroyed = TRUE], "rejected", "timeout")
  ELSE IF a.kind = "network"
  THEN Settle([c EXCEPT !.errored = TRUE], "rejected", "network_error")
  ELSE ShipStationEnd([c EXCEPT !.status = a.status, !.ended = TRUE], a.parses)

\* error.message of a rejected ShipStation call.
RejectionMessage(c) ==
  CASE c.value = "timeout" -> MsgTimeout
    [] c.value = "network_error" -> MsgNetwork
    [] c.value = "invalid_response" -> MsgInvalid
    [] OTHER -> MsgApiError

\* ---------------------------------------------------------------- state

VARIABLES
  pc,               \* the await the invocation is suspended at
  req,              \* event
  env,              \* process.env
  orders,           \* orderData.orders, until the exact match is bound
  order,            \* the exact match
  rawShipments,     \* shipmentData.shipments
  idx,              \* position of getShipmentsWithTracking's for loop
  attempt,          \* the poll loop's attempt
  trackingData,     \* the latest gettrackinfo answer for rawShipments[idx]
  trackedShipments, \* getShipmentsWithTracking's result so far
  response,         \* what the handler returned
  path,             \* which branch of the handler built the response
  calls,            \* upstream calls issued: search, list; query and
                    \* register for the shipment being verified; tracking =
                    \* whether any 17track call was issued
  failed,           \* positions of the shipments one of whose 17track calls
                    \* was rejected
  fulfillment,      \* what the order search and the shipment listing met
  call,             \* one upstream call followed event by event: its
                    \* promise, its request and its socket
  upstream,         \* the state of ShipStation and 17track, where a
                    \* specification holds it fixed across invocations
  previous,         \* the invocation count and the response of the
                    \* invocation before this one
  carrier           \* the translation of the carrier code of
                    \* rawShipments[idx], where a specification follows it

handlerVars ==
  <<pc, req, env, orders, order, rawShipments, idx, attempt, trackingData,
    trackedShipments, response, path, calls, failed, fulfillment>>

worldVars == <<call, upstream, previous, carrier>>

vars == <<handlerVars, worldVars>>

NoOrder == Order(Null, Null, Null)

NoCalls ==
  [search |-> 0, list |-> 0, query |-> 0, register |-> 0, tracking |-> FALSE]

NoFulfillment == [search |-> NoAnswer, list |-> NoAnswer]

\* No upstream state is held.
NoUpstream ==
  [search |-> NoAnswer, orders |-> <<>>, list |-> NoAnswer, shipments |-> <<>>,
   tracking |-> <<>>]

\* The first invocation.
NoPrevious == [run |-> 1, response |-> NoResponse]

\* No carrier code is translated: get-order.js sends the number alone.
NoCarrier == [code |-> Null, id |-> Null, raised |-> FALSE, applied |-> FALSE]

\* No upstream call is followed event by event.
NoCall ==
  [api |-> "none", state |-> "none", value |-> Null, status |-> 0,
   requests |-> 0, ended |-> FALSE, errored |-> FALSE, destroyed |-> FALSE,
   elapsed |-> 0, idle |-> 0]

Init ==
  /\ pc = "start"
  /\ req \in Requests
  /\ env \in Envs
  /\ orders = <<>>
  /\ order = NoOrder
  /\ rawShipments = <<>>
  /\ idx = 0
  /\ attempt = 0
  /\ trackingData = NoTrackingData
  /\ trackedShipments = <<>>
  /\ response = NoResponse
  /\ path = "none"
  /\ calls = NoCalls
  /\ failed = {}
  /\ fulfillment = NoFulfillment
  /\ call = NoCall
  /\ upstream = NoUpstream
  /\ previous = NoPrevious
  /\ carrier = NoCarrier

\* The handler returns: its locals are gone.
Return(resp, how) ==
  /\ pc' = "done"
  /\ response' = resp
  /\ path' = how
  /\ idx' = 0
  /\ attempt' = 0
  /\ trackingData' = NoTrackingData
  /\ calls' = [calls EXCEPT !.query = 0, !.register = 0]

\* Method check, body parse, field validation, credential check; a valid
\* request issues the order search.
ReceiveStep ==
  /\ pc = "start"
  /\ LET v == Validate(req, env) IN
     IF v = NoResponse
     THEN /\ pc' = "search"
          /\ calls' = [calls EXCEPT !.search = 1]
          /\ UNCHANGED <<response, path, idx, attempt, trackingData>>
     ELSE Return(v, "validation")
  /\ UNCHANGED <<req, env, orders, order, rawShipments, trackedShipments,
                 failed, fulfillment>>

Receive == ReceiveStep /\ UNCHANGED worldVars

\* orderData.orders.find(...): the callback reads customerEmail.toLowerCase()
\* of every row it visits, so a row whose customerEmail is not a string
\* raises a TypeError when find reaches it.
IsExactMatch(o, r) ==
  /\ o.orderNumber = Trim(r.body.orderNumber)
  /\ IsString(o.customerEmail)
  /\ ToLower(o.customerEmail) = ToLower(Trim(r.body.email))

FindThrows(os, r) ==
  \E k \in 1..Len(os) :
    /\ ~IsString(os[k].customerEmail)
    /\ \A j \in 1..(k - 1) : ~IsExactMatch(os[j], r)

HasExactMatch(os, r) == \E k \in 1..Len(os) : IsExactMatch(os[k], r)

exactMatch(os, r) ==
  os[CHOOSE k \in 1..Len(os) :
       /\ IsExactMatch(os[k], r)
       /\ \A j \in 1..(k - 1) : ~IsExactMatch(os[j], r)]

\* NoMatchResponse with the TypeError of find leaving the handler.
NoMatchResponseEscapes(os, r) ==
  IF Len(os) = 0 THEN ErrorResponse(404, MsgNotFound)
  ELSE IF FindThrows(os, r) THEN NoResponse
  ELSE ErrorResponse(404, MsgNotFound)

\* The status code the handler answers a search with, when the search
\* itself answered and no exact match is bound: 404, or 500 when find raised.
NoMatchResponse(os, r) ==
  IF Len(os) = 0 THEN ErrorResponse(404, MsgNotFound)
  ELSE IF FindThrows(os, r) THEN CaughtResponse(env, MsgTypeError)
  ELSE ErrorResponse(404, MsgNotFound)

\* The order search settles: it meets one of answers and, when that is a
\* parsable 200, carries one of lists as orderData.orders.
OrderSearchFrom(answers, lists) ==
  /\ pc = "search"
  /\ \E a \in answers :
       LET c == makeShipStationRequest(a) IN
       /\ fulfillment' = [fulfillment EXCEPT !.search = a]
       /\ \/ \* rejected: the top-level catch answers
             /\ c.state = "rejected"
             /\ Return(CaughtResponse(env, RejectionMessage(c)), "search_failed")
             /\ UNCHANGED <<orders, order>>
          \/ \* 404, resolved as { orders: [], shipments: [] }
             /\ c.state = "resolved" /\ c.value = "empty"
             /\ Return(ErrorResponse(404, MsgNotFound), "not_found")
             /\ UNCHANGED <<orders, order>>
          \/ /\ c.state = "resolved" /\ c.value = "data"
             /\ \E os \in lists :
                  IF Len(os) > 0 /\ ~FindThrows(os, req) /\ HasExactMatch(os, req)
                  THEN /\ order' = exactMatch(os, req)
                       /\ orders' = <<>>
                       /\ pc' = "shipments"
                       /\ calls' = [calls EXCEPT !.list = 1]
                       /\ UNCHANGED <<response, path, idx, attempt, trackingData>>
                  ELSE /\ orders' = os
                       /\ order' = order
                       /\ Return(NoMatchResponse(os, req),
                                 IF Len(os) > 0 /\ FindThrows(os, req)
                                 THEN "match_failed" ELSE "not_found")
  /\ UNCHANGED <<req, env, rawShipments, trackedShipments, failed>>

OrderSearch ==
  /\ OrderSearchFrom(FulfillmentAnswers, SeqsUpTo(OrderPool, MaxOrders))
  /\ UNCHANGED worldVars

\* The catch (trackingError) branch: the platform-only loop appends to what
\* the tracked loop had pushed; when that loop raises too, the outer
\* catch (shipmentError) keeps what was pushed.  effectiveOrderStatus is
\* still the raw status.
HandlerFallback(pushed) ==
  Return(OrderResponse(order.orderStatus, pushed \o PlatformEntries(rawShipments')),
         IF FirstPlatformThrow(rawShipments') > Len(rawShipments')
         THEN "fallback" ELSE "fallback_failed")

\* getShipmentsWithTracking returned tracked: the handler's forEach, the
\* overall status and the response.
TrackingComplete(tracked) ==
  /\ trackedShipments' = tracked
  /\ IF FirstTrackedThrow(tracked) > Len(tracked)
     THEN Return(OrderResponse(AggregateStatus(tracked, order.orderStatus),
                               TrackedEntries(tracked)),
                 "tracked")
     ELSE HandlerFallback(TrackedEntries(tracked))

\* The for loop from position k on: shipments without tracking number are
\* pushed at once; the first one with a tracking number issues gettrackinfo.
RECURSIVE VerifyFrom(_, _)
VerifyFrom(tracked, k) ==
  IF k > Len(rawShipments') THEN TrackingComplete(tracked)
  ELSE IF ~Truthy(rawShipments'[k].trackingNumber)
  THEN VerifyFrom(Append(tracked, UntrackedShipment(rawShipments'[k])), k + 1)
  ELSE /\ trackedShipments' = tracked
       /\ idx' = k
       /\ pc' = "query"
       /\ attempt' = 0
       /\ trackingData' = NoTrackingData
       /\ calls' = [calls EXCEPT !.query = 1, !.register = 0, !.tracking = TRUE]
       /\ UNCHANGED <<response, path>>

\* ShipmentError without the catches: the rejection reaches the top-level
\* catch of the handler.
ShipmentErrorPropagates ==
  /\ trackedShipments' = trackedShipments
  /\ Return(ErrorResponse(500, MsgGeneric), "tracking_failed")

\* The per-shipment catch: fail open; checkShipmentDeliveryStatus raising
\* inside the catch ends getShipmentsWithTracking with an exception.
ShipmentError ==
  IF CheckDeliveryThrows(rawShipments[idx])
  THEN /\ trackedShipments' = trackedShipments
       /\ HandlerFallback(<<>>)
  ELSE VerifyFrom(Append(trackedShipments, FallbackShipment(rawShipments[idx])),
                  idx + 1)

\* Step 4 and the push for rawShipments[idx].
ShipmentVerified(hasValidData, td) ==
  IF ClassifyThrows(hasValidData, td) THEN ShipmentError
  ELSE VerifyFrom(Append(trackedShipments,
                         VerifiedShipment(rawShipments[idx], hasValidData, td)),
                  idx + 1)

\* ListFailedResponse with the rejection reaching the top-level catch.
ListFailedResponseFails(o) == ErrorResponse(500, MsgGeneric)

\* catch (shipmentError) only logs: the response is built from the raw
\* status and the shipments pushed so far, none.
ListFailedResponse(o) == OrderResponse(o.orderStatus, <<>>)

\* TrackingConfigured with the 17track branch taken without a key.
TrackingConfiguredAlways(e) == TRUE

\* if (seventeenTrackKey): the 17track branch is taken with the key only.
TrackingConfigured(e) == e.SEVENTEEN_TRACK_API_KEY

\* The shipment listing settles: it meets one of answers and, when that is
\* a parsable 200, carries one of lists as shipmentData.shipments.
ShipmentListFrom(answers, lists) ==
  /\ pc = "shipments"
  /\ \E a \in answers :
       LET c == makeShipStationRequest(a) IN
       /\ fulfillment' = [fulfillment EXCEPT !.list = a]
       /\ \/ \* rejected: catch (shipmentError)
             /\ c.state = "rejected"
             /\ rawShipments' = rawShipments
             /\ trackedShipments' = trackedShipments
             /\ Return(ListFailedResponse(order), "list_failed")
          \/ \* 404, resolved as { orders: [], shipments: [] }
             /\ c.state = "resolved" /\ c.value = "empty"
             /\ rawShipments' = rawShipments
             /\ trackedShipments' = trackedShipments
             /\ Return(OrderResponse(order.orderStatus, <<>>), "no_shipments")
          \/ /\ c.state = "resolved" /\ c.value = "data"
             /\ \E l \in lists :
                  /\ rawShipments' = l
                  /\ IF Len(l) = 0
                     THEN /\ trackedShipments' = trackedShipments
                          /\ Return(OrderResponse(order.orderStatus, <<>>),
                                    "no_shipments")
                     ELSE IF TrackingConfigured(env)
                     THEN VerifyFrom(<<>>, 1)
                     ELSE /\ trackedShipments' = trackedShipments
                          /\ Return(OrderResponse(order.orderStatus,
                                                  PlatformEntries(l)),
                                    IF FirstPlatformThrow(l) > Len(l)
                                    THEN "platform" ELSE "platform_failed")
  /\ UNCHANGED <<req, env, orders, order, failed>>

ShipmentList ==
  /\ ShipmentListFrom(FulfillmentAnswers, ShipmentLists)
  /\ UNCHANGED worldVars

\* Step 1: the first gettrackinfo for rawShipments[idx] settles: rejected
\* (where mayFail), or resolved with one of answers.
TrackQueryFrom(answers, mayFail) ==
  /\ pc = "query"
  /\ rawShipments' = rawShipments
  /\ \/ \* rejected: timeout, network error, status other than 200,
        \* unparsable body
        /\ mayFail
        /\ failed' = failed \cup {idx}
        /\ ShipmentError
     \/ \E td \in answers :
          /\ failed' = failed
          /\ IF HasValidData(td) THEN ShipmentVerified(TRUE, td)
             ELSE /\ pc' = "register"
                  /\ trackingData' = td
                  /\ calls' = [calls EXCEPT !.register = @ + 1]
                  /\ UNCHANGED <<idx, attempt, trackedShipments, response, path>>
  /\ UNCHANGED <<req, env, orders, order, fulfillment>>

TrackQuery == TrackQueryFrom(TrackAnswers, TRUE) /\ UNCHANGED worldVars

\* RegistrationRejected handing the shipment to the per-shipment catch.
RegistrationRejectedFailsOpen == ShipmentError

\* The else branch of the registration: no poll, the shipment is classified
\* from what the first query returned.
RegistrationRejected == ShipmentVerified(FALSE, trackingData)

\* Step 2: the register call settles in one of outcomes.
TrackRegisterFrom(outcomes) ==
  /\ pc = "register"
  /\ rawShipments' = rawShipments
  /\ \/ \* rejected
        /\ "failed" \in outcomes
        /\ failed' = failed \cup {idx}
        /\ ShipmentError
     \/ \* data.accepted is non-empty: the poll loop issues its first query
        /\ "accepted" \in outcomes
        /\ failed' = failed
        /\ pc' = "poll"
        /\ attempt' = 0
        /\ calls' = [calls EXCEPT !.query = @ + 1]
        /\ UNCHANGED <<idx, trackingData, trackedShipments, response, path>>
     \/ \* data.accepted is empty (registration rejected): no poll
        /\ "rejected" \in outcomes
        /\ failed' = failed
        /\ RegistrationRejected
  /\ UNCHANGED <<req, env, orders, order, fulfillment>>

RegisterOutcomes == {"failed", "accepted", "rejected"}

TrackRegister == TrackRegisterFrom(RegisterOutcomes) /\ UNCHANGED worldVars

\* PollAgain with the loop running one attempt too many.
PollAgainOffByOne(a) == a + 1 <= PollAttempts

\* The poll loop's attempt++ and test attempt < 3, after attempt a.
PollAgain(a) == a + 1 < PollAttempts

\* Step 3: a poll's gettrackinfo settles: rejected (where mayFail), or
\* resolved with one of answers.
TrackPollFrom(answers, mayFail) ==
  /\ pc = "poll"
  /\ rawShipments' = rawShipments
  /\ \/ \* rejected
        /\ mayFail
        /\ failed' = failed \cup {idx}
        /\ ShipmentError
     \/ \E td \in answers :
          /\ failed' = failed
          /\ IF HasValidData(td) THEN ShipmentVerified(TRUE, td)
             ELSE IF PollAgain(attempt)
             THEN /\ attempt' = attempt + 1
                  /\ trackingData' = td
                  /\ calls' = [calls EXCEPT !.query = @ + 1]
                  /\ UNCHANGED <<pc, idx, trackedShipments, response, path>>
             ELSE ShipmentVerified(FALSE, td)
  /\ UNCHANGED <<req, env, orders, order, fulfillment>>

TrackPoll == TrackPollFrom(TrackAnswers, TRUE) /\ UNCHANGED worldVars

Next ==
  \/ Receive
  \/ OrderSearch
  \/ ShipmentList
  \/ TrackQuery
  \/ TrackRegister
  \/ TrackPoll

Spec == Init /\ [][Next]_vars

\* InFlight with every remaining shipment started at once.
InFlightAll ==
  IF pc \in {"query", "register", "poll"} THEN idx..Len(rawShipments) ELSE {}

\* The positions of the shipments with a 17track call awaited: the for loop
\* of getShipmentsWithTracking awaits each call before it goes on.
InFlight ==
  IF pc \in {"query", "register", "poll"} THEN {idx} ELSE {}

\* ------------------------------------- the classification of one answer

\* latest_status.status: the values the switch names, in several spellings,
\* values it does not name, and no value.
StatusVocabulary ==
  {"delivered", "Delivered", "DELIVERED",
   "intransit", "InTransit", "in_transit", "IN_TRANSIT",
   "pickup", "PickUp", "picked_up", "Picked_Up",
   "undelivered", "Undelivered", "exception", "EXCEPTION", "alert", "Alert",
   "pending", "Pending", "info_received", "Info_Received", "InfoReceived",
   "not_found", "Not_Found", "NotFound", "expired", "Expired",
   "", Null}

\* latest_status.sub_status.
SubStatusVocabulary ==
  {Null, "Delivered_Other", "InTransit_PickedUp", "InTransit_Picked_Up",
   "PICKED_UP", "Picked up by carrier"}

StatusAnswers ==
  {NoTrackingData}
  \cup {TrackInfo(TRUE, st, sub, "2024-01-09", Null) :
          st \in StatusVocabulary, sub \in SubStatusVocabulary}

ValidRequest ==
  [httpMethod |-> "POST", body |-> Body("object", " ABC123 ", "A@B.com")]

\* The handler is suspended at the first gettrackinfo for the only shipment
\* of the order.
InitClassify ==
  /\ pc = "query"
  /\ req = ValidRequest
  /\ env = Env(TRUE, "production")
  /\ orders = <<>>
  /\ order = Order("ABC123", "a@b.com", "shipped")
  /\ rawShipments \in
       {<<[RawShipment("T", d, Null, Null, Null, "ups") EXCEPT !.shipmentId = 1]>> :
          d \in {Null, "2024-01-05"}}
  /\ idx = 1
  /\ attempt = 0
  /\ trackingData = NoTrackingData
  /\ trackedShipments = <<>>
  /\ response = NoResponse
  /\ path = "none"
  /\ calls = [search |-> 1, list |-> 1, query |-> 1, register |-> 0,
              tracking |-> TRUE]
  /\ failed = {}
  /\ fulfillment = [search |-> Answer("response", 200, TRUE),
                    list |-> Answer("response", 200, TRUE)]
  /\ call = NoCall
  /\ upstream = NoUpstream
  /\ previous = NoPrevious
  /\ carrier = NoCarrier

ClassifyQuery == TrackQueryFrom(StatusAnswers, TRUE) /\ UNCHANGED worldVars

ClassifyPoll == TrackPollFrom(StatusAnswers, TRUE) /\ UNCHANGED worldVars

NextClassify ==
  \/ ClassifyQuery
  \/ TrackRegister
  \/ ClassifyPoll

SpecClassify == InitClassify /\ [][NextClassify]_vars

\* --------------------------------- the platform-only delivery heuristic

\* Raw shipments in every combination of the four fields the heuristic reads.
HeuristicShipments ==
  {RawShipment("T", d, v, ss, ts, "ups") :
     d \in {Null, "2024-01-05"},
     v \in {Null, "2024-01-02"},
     ss \in {Null, "Delivered", "DELIVERED", "delivered", "shipped", NonString},
     ts \in {Null, "Delivered", "Delivered_Other", "Undelivered", "InTransit",
             NonString}}

HeuristicLists ==
  {<<[s EXCEPT !.shipmentId = 1]>> : s \in HeuristicShipments}

\* The handler is suspended at the shipment listing, SEVENTEEN_TRACK_API_KEY
\* is not set.
InitHeuristic ==
  /\ pc = "shipments"
  /\ req = ValidRequest
  /\ env = Env(FALSE, "production")
  /\ orders = <<>>
  /\ order \in {Order("ABC123", "a@b.com", st) : st \in RawStatuses}
  /\ rawShipments = <<>>
  /\ idx = 0
  /\ attempt = 0
  /\ trackingData = NoTrackingData
  /\ trackedShipments = <<>>
  /\ response = NoResponse
  /\ path = "none"
  /\ calls = [search |-> 1, list |-> 1, query |-> 0, register |-> 0,
              tracking |-> FALSE]
  /\ failed = {}
  /\ fulfillment = [search |-> Answer("response", 200, TRUE),
                    list |-> NoAnswer]
  /\ call = NoCall
  /\ upstream = NoUpstream
  /\ previous = NoPrevious
  /\ carrier = NoCarrier

NextHeuristic ==
  /\ ShipmentListFrom(FulfillmentAnswers, HeuristicLists)
  /\ UNCHANGED worldVars

SpecHeuristic == InitHeuristic /\ [][NextHeuristic]_vars

\* ------------------------------------- verification of several shipments

SequentialLists ==
  {[k \in 1..Len(l) |-> [l[k] EXCEPT !.shipmentId = k]] :
     l \in SeqsUpTo({RawShipment("T", Null, Null, Null, Null, "ups"),
                     RawShipment(Null, Null, Null, Null, Null, "ups")},
                    MaxFanOut)}

SequentialAnswers ==
  {NoTrackingData,
   TrackInfo(TRUE, "Delivered", "Delivered_Other", "2024-01-09", "UPS"),
   TrackInfo(TRUE, "InTransit", Null, Null, "UPS")}

\* The handler is suspended at the shipment listing, with the 17track key.
InitSequential ==
  /\ pc = "shipments"
  /\ req = ValidRequest
  /\ env = Env(TRUE, "production")
  /\ orders = <<>>
  /\ order = Order("ABC123", "a@b.com", "shipped")
  /\ rawShipments = <<>>
  /\ idx = 0
  /\ attempt = 0
  /\ trackingData = NoTrackingData
  /\ trackedShipments = <<>>
  /\ response = NoResponse
  /\ path = "none"
  /\ calls = [search |-> 1, list |-> 1, query |-> 0, register |-> 0,
              tracking |-> FALSE]
  /\ failed = {}
  /\ fulfillment = [search |-> Answer("response", 200, TRUE),
                    list |-> NoAnswer]
  /\ call = NoCall
  /\ upstream = NoUpstream
  /\ previous = NoPrevious
  /\ carrier = NoCarrier

SequentialList ==
  /\ ShipmentListFrom(FulfillmentAnswers, SequentialLists)
  /\ UNCHANGED worldVars

SequentialQuery == TrackQueryFrom(SequentialAnswers, TRUE) /\ UNCHANGED worldVars

SequentialPoll == TrackPollFrom(SequentialAnswers, TRUE) /\ UNCHANGED worldVars

NextSequential ==
  \/ SequentialList
  \/ SequentialQuery
  \/ TrackRegister
  \/ SequentialPoll

SpecSequential == InitSequential /\ [][NextSequential]_vars

\* ------------------------------------------------ the handler, scheduled
\* Every awaited call settles (each has a 15 s timeout) and the continuation
\* of the handler then runs.  The inputs are those that reach each return
\* and each catch of the handler.

FairOrders ==
  {<<>>,
   <<Order("ABC123", "a@b.com", "shipped")>>,
   <<Order("ABC123", "z@z.com", "shipped")>>,
   <<Order("ABC123", Null, "shipped")>>}

FairLists ==
  {[k \in 1..Len(l) |-> [l[k] EXCEPT !.shipmentId = k]] :
     l \in SeqsUpTo({RawShipment("T", Null, Null, Null, Null, "ups"),
                     RawShipment(Null, Null, Null, Null, Null, "acme"),
                     RawShipment("T", Null, Null, Null, Null, NonString)},
                    MaxShipments)}

FairAnswers ==
  {NoTrackingData,
   TrackInfo(TRUE, "Delivered", "Delivered_Other", "2024-01-09", "UPS"),
   TrackInfo(TRUE, "InTransit", Null, Null, NonString)}

InitFair ==
  /\ pc = "start"
  /\ req \in Requests
  /\ env \in {e \in Envs : e.SHIPSTATION_API_KEY /\ e.NODE_ENV = "production"}
  /\ orders = <<>>
  /\ order = NoOrder
  /\ rawShipments = <<>>
  /\ idx = 0
  /\ attempt = 0
  /\ trackingData = NoTrackingData
  /\ trackedShipments = <<>>
  /\ response = NoResponse
  /\ path = "none"
  /\ calls = NoCalls
  /\ failed = {}
  /\ fulfillment = NoFulfillment
  /\ call = NoCall
  /\ upstream = NoUpstream
  /\ previous = NoPrevious
  /\ carrier = NoCarrier

FairSearch ==
  /\ OrderSearchFrom(FulfillmentAnswers, FairOrders)
  /\ UNCHANGED worldVars

FairList ==
  /\ ShipmentListFrom(FulfillmentAnswers, FairLists)
  /\ UNCHANGED worldVars

FairQuery == TrackQueryFrom(FairAnswers, TRUE) /\ UNCHANGED worldVars

FairPoll == TrackPollFrom(FairAnswers, TRUE) /\ UNCHANGED worldVars

NextFair ==
  \/ Receive
  \/ FairSearch
  \/ FairList
  \/ FairQuery
  \/ TrackRegister
  \/ FairPoll

SpecFair == InitFair /\ [][NextFair]_vars /\ WF_vars(NextFair)

\* ----------------------------- two invocations against a fixed upstream
\* The upstream answers are a function of its state: ShipStation's answers
\* are fixed; 17track, per shipment, is up or down, knows the number or not,
\* and holds info for it.  gettrackinfo returns info once the number is
\* registered; register accepts a number once.

Upstream(search, os, list, l, tracking) ==
  [search |-> search, orders |-> os, list |-> list, shipments |-> l,
   tracking |-> tracking]

TrackStates ==
  [up : BOOLEAN, registered : {"no", "yes", "by_handler"},
   info : {TrackInfo(TRUE, Null, Null, Null, "UPS"),
           TrackInfo(TRUE, "Delivered", "Delivered_Other", "2024-01-09", "UPS"),
           TrackInfo(TRUE, "InTransit", Null, Null, "UPS")}]

TwiceLists ==
  {[k \in 1..Len(l) |-> [l[k] EXCEPT !.shipmentId = k]] :
     l \in SeqsUpTo({RawShipment("T", Null, Null, Null, Null, "ups"),
                     RawShipment(Null, "2024-01-05", Null, Null, Null, "ups")},
                    MaxShipments)}

OkAnswer == Answer("response", 200, TRUE)

UpstreamStates ==
  {Upstream(a, <<>>, NoAnswer, <<>>, <<>>) : a \in FulfillmentAnswers \ {OkAnswer}}
  \cup {Upstream(OkAnswer, os, NoAnswer, <<>>, <<>>) :
          os \in {<<>>, <<Order("ABC123", "z@z.com", "shipped")>>,
                  <<Order("ABC123", Null, "shipped")>>}}
  \cup {Upstream(OkAnswer, <<Order("ABC123", "a@b.com", "On_Hold")>>, a, <<>>, <<>>) :
          a \in FulfillmentAnswers \ {OkAnswer}}
  \cup UNION {{Upstream(OkAnswer, <<Order("ABC123", "a@b.com", "On_Hold")>>,
                        OkAnswer, l, t) :
                 t \in [1..Len(l) -> {u \in TrackStates : u.registered # "by_handler"}]} :
               l \in TwiceLists}

\* What gettrackinfo returns for a number in the state u.
gettrackinfo(u) == IF u.registered = "no" THEN NoTrackingData ELSE u.info

InitTwice ==
  /\ pc = "start"
  /\ req = ValidRequest
  /\ env \in {Env(t, "production") : t \in BOOLEAN}
  /\ orders = <<>>
  /\ order = NoOrder
  /\ rawShipments = <<>>
  /\ idx = 0
  /\ attempt = 0
  /\ trackingData = NoTrackingData
  /\ trackedShipments = <<>>
  /\ response = NoResponse
  /\ path = "none"
  /\ calls = NoCalls
  /\ failed = {}
  /\ fulfillment = NoFulfillment
  /\ call = NoCall
  /\ upstream \in UpstreamStates
  /\ previous = NoPrevious
  /\ carrier = NoCarrier

TwiceSearch ==
  /\ OrderSearchFrom({upstream.search}, {upstream.orders})
  /\ UNCHANGED worldVars

TwiceList ==
  /\ ShipmentListFrom({upstream.list}, {upstream.shipments})
  /\ UNCHANGED worldVars

TwiceQuery ==
  /\ pc = "query"
  /\ LET u == upstream.tracking[idx] IN
     TrackQueryFrom(IF u.up THEN {gettrackinfo(u)} ELSE {}, ~u.up)
  /\ UNCHANGED worldVars

\* register: an unknown number is accepted and known from then on, a known
\* one is rejected.
TwiceRegister ==
  /\ pc = "register"
  /\ LET u == upstream.tracking[idx] IN
     /\ TrackRegisterFrom({IF ~u.up THEN "failed"
                           ELSE IF u.registered = "no" THEN "accepted"
                           ELSE "rejected"})
     /\ upstream' = IF u.up /\ u.registered = "no"
                    THEN [upstream EXCEPT !.tracking[idx].registered = "by_handler"]
                    ELSE upstream
  /\ UNCHANGED <<call, previous, carrier>>

TwicePoll ==
  /\ pc = "poll"
  /\ LET u == upstream.tracking[idx] IN
     TrackPollFrom(IF u.up THEN {gettrackinfo(u)} ELSE {}, ~u.up)
  /\ UNCHANGED worldVars

\* The same event is handed to a fresh invocation: the handler has no
\* module-level state, every local starts anew.
Again ==
  /\ pc = "done"
  /\ previous.run = 1
  /\ previous' = [run |-> 2, response |-> response]
  /\ pc' = "start"
  /\ orders' = <<>>
  /\ order' = NoOrder
  /\ rawShipments' = <<>>
  /\ idx' = 0
  /\ attempt' = 0
  /\ trackingData' = NoTrackingData
  /\ trackedShipments' = <<>>
  /\ response' = NoResponse
  /\ path' = "none"
  /\ calls' = NoCalls
  /\ failed' = {}
  /\ fulfillment' = NoFulfillment
  /\ UNCHANGED <<req, env, call, upstream, carrier>>

NextTwice ==
  \/ Receive
  \/ TwiceSearch
  \/ TwiceList
  \/ TwiceQuery
  \/ TwiceRegister
  \/ TwicePoll
  \/ Again

SpecTwice == InitTwice /\ [][NextTwice]_vars

\* ------------------------------------------------- carrier translation
\* mapCarrierToSeventeenTrack of src/unnamed/part_003, applied to the carrier
\* code of each shipment by the loop of verifyShipmentsWithSeventeenTrack.
\* The 17track calls that follow the translation are not followed here.

\* carrierMapping[key]: the 17track carrier id, or Null for undefined.
carrierMapping(key) ==
  CASE key \in {"ups", "ups_ground"} -> "100002"
    [] key \in {"fedex", "fedex_express", "fedex_ground"} -> "100003"
    [] key \in {"usps", "stamps_com"} -> "100001"
    [] key \in {"dhl", "dhl_express"} -> "100004"
    [] key = "ontrac" -> "100143"
    [] key = "lasership" -> "190014"
    [] key = "amazon" -> "100099"
    [] key = "newgistics" -> "190269"
    [] OTHER -> Null

CarrierIds ==
  {"100001", "100002", "100003", "100004", "100143", "190014", "100099",
   "190269"}

\* The auto-detect value.
AutoDetect == "0"

\* shipstationCarrier.toLowerCase() raises a TypeError for null, undefined
\* and every value that is not a string.
mapCarrierToSeventeenTrack(shipstationCarrier) ==
  IF ~IsString(shipstationCarrier)
  THEN [code |-> shipstationCarrier, id |-> Null, raised |-> TRUE,
        applied |-> TRUE]
  ELSE LET mapped == carrierMapping(ToLower(shipstationCarrier)) IN
       [code |-> shipstationCarrier,
        id |-> IF mapped = Null THEN AutoDetect ELSE mapped,
        raised |-> FALSE, applied |-> TRUE]

\* shipment.carrierCode as ShipStation returns it: the codes of the table,
\* other spellings of them, unknown codes, the empty string, null and a
\* value that is not a string.
CarrierCodes ==
  {"ups", "ups_ground", "fedex", "fedex_express", "fedex_ground", "usps",
   "stamps_com", "dhl", "dhl_express", "ontrac", "lasership", "amazon",
   "newgistics", "UPS", "FedEx", "USPS", "Stamps_Com", "acme", "royal_mail",
   "", Null, NonString}

CarrierLists ==
  {[k \in 1..Len(l) |-> [l[k] EXCEPT !.shipmentId = k]] :
     l \in UNION {[1..n -> {RawShipment("T", Null, Null, Null, Null, c) :
                              c \in CarrierCodes}] : n \in 1..MaxShipments}}

\* verifyShipmentsWithSeventeenTrack is entered with the listed shipments.
InitCarrier ==
  /\ pc = "translate"
  /\ req = ValidRequest
  /\ env = Env(TRUE, "production")
  /\ orders = <<>>
  /\ order = Order("ABC123", "a@b.com", "shipped")
  /\ rawShipments \in CarrierLists
  /\ idx = 1
  /\ attempt = 0
  /\ trackingData = NoTrackingData
  /\ trackedShipments = <<>>
  /\ response = NoResponse
  /\ path = "none"
  /\ calls = [search |-> 1, list |-> 1, query |-> 0, register |-> 0,
              tracking |-> FALSE]
  /\ failed = {}
  /\ fulfillment = [search |-> OkAnswer, list |-> OkAnswer]
  /\ call = NoCall
  /\ upstream = NoUpstream
  /\ previous = NoPrevious
  /\ carrier = NoCarrier

\* The first statement of the try block for rawShipments[idx]; a TypeError
\* is caught by the catch of the loop body.
Translate ==
  /\ pc = "translate"
  /\ idx <= Len(rawShipments)
  /\ carrier' = mapCarrierToSeventeenTrack(rawShipments[idx].carrierCode)
  /\ failed' = IF carrier'.raised THEN failed \cup {idx} ELSE failed
  /\ idx' = idx + 1
  /\ UNCHANGED <<pc, req, env, orders, order, rawShipments, attempt,
                 trackingData, trackedShipments, response, path, calls,
                 fulfillment, call, upstream, previous>>

NextCarrier == Translate

SpecCarrier == InitCarrier /\ [][NextCarrier]_vars

\* ------------------------------------------------- one upstream call
\* makeShipStationRequest / makeSeventeenTrackV22Request followed event by
\* event.  Time is counted in steps of TickMs; idle is the time since the
\* last activity on the socket, which is what req.setTimeout measures.

InitTransport ==
  /\ pc = "start"
  /\ req = ValidRequest
  /\ env = Env(TRUE, "production")
  /\ orders = <<>>
  /\ order = NoOrder
  /\ rawShipments = <<>>
  /\ idx = 0
  /\ attempt = 0
  /\ trackingData = NoTrackingData
  /\ trackedShipments = <<>>
  /\ response = NoResponse
  /\ path = "none"
  /\ calls = NoCalls
  /\ failed = {}
  /\ fulfillment = NoFulfillment
  /\ call \in {IssueCall(api) : api \in {"shipstation", "17track"}}
  /\ upstream = NoUpstream
  /\ previous = NoPrevious
  /\ carrier = NoCarrier

\* The socket is open and its inactivity timer is not due.  (A timer that
\* is due runs before any later socket event is handled.)
SocketLive ==
  /\ ~call.ended /\ ~call.errored /\ ~call.destroyed
  /\ call.idle < TimeoutMs

\* Time passes with nothing on the socket.
Tick ==
  /\ SocketLive
  /\ call.elapsed < MaxElapsedMs
  /\ call' = [call EXCEPT !.elapsed = @ + TickMs, !.idle = @ + TickMs]
  /\ UNCHANGED <<handlerVars, upstream, previous, carrier>>

\* The status line and headers arrive.
ResponseHead ==
  /\ SocketLive
  /\ call.status = 0
  /\ \E st \in HttpStatuses : call' = [call EXCEPT !.status = st, !.idle = 0]
  /\ UNCHANGED <<handlerVars, upstream, previous, carrier>>

\* res.on('data'): a chunk of the body arrives.
ResponseData ==
  /\ SocketLive
  /\ call.status # 0
  /\ call' = [call EXCEPT !.idle = 0]
  /\ UNCHANGED <<handlerVars, upstream, previous, carrier>>

\* res.on('end'): the body is complete; parses = JSON.parse accepts it.
ResponseEnd ==
  /\ SocketLive
  /\ call.status # 0
  /\ \E parses \in BOOLEAN :
       LET c == [call EXCEPT !.ended = TRUE, !.idle = 0] IN
       call' = IF call.api = "shipstation" THEN ShipStationEnd(c, parses)
               ELSE SeventeenTrackEnd(c, parses)
  /\ UNCHANGED <<handlerVars, upstream, previous, carrier>>

\* req.on('error'): the connection fails, or the destroyed socket reports
\* its hang-up.
SocketError ==
  /\ SocketLive \/ (call.destroyed /\ ~call.errored)
  /\ call' = Settle([call EXCEPT !.errored = TRUE], "rejected", "network_error")
  /\ UNCHANGED <<handlerVars, upstream, previous, carrier>>

\* The req.setTimeout callback: the socket has been idle for TimeoutMs.
SocketTimeout ==
  /\ ~call.ended /\ ~call.errored /\ ~call.destroyed
  /\ call.idle >= TimeoutMs
  /\ call' = Settle([call EXCEPT !.destroyed = TRUE], "rejected", "timeout")
  /\ UNCHANGED <<handlerVars, upstream, previous, carrier>>

NextTransport ==
  \/ Tick
  \/ ResponseHead
  \/ ResponseData
  \/ ResponseEnd
  \/ SocketError
  \/ SocketTimeout

SpecTransport == InitTransport /\ [][NextTransport]_vars

\* ================================================================ claims

Answered == pc = "done" /\ response.statusCode = 200 /\ response.body = "order"

\* Tracking verification is active for the response: the handler's tracked
\* branch ran to the end (getShipmentsWithTracking returned, the forEach and
\* the overall status were computed).  The catch (trackingError) branch
\* answers from the platform data only and is a path of its own.
TrackingActive == Answered /\ path = "tracked"

Positions(seq) == 1..Len(seq)

Scanned(t) == shipmentStatus(t) \in {"shipped", "delivered"}

\* C1: with tracking active, every shipment of a 200 response is classified
\* shipped or delivered; a label-only (processing) shipment is never returned.
C1_OnlyScannedShipmentsReturned ==
  TrackingActive =>
    \A k \in Positions(response.shipments) :
      response.shipments[k].status \in {"shipped", "delivered"}

\* C2: in every 200 response, on every path, totalShipments of each returned
\* shipment is the length of the returned list and the shipmentNumber values
\* are 1..length in order.
C2_DenseNumbering ==
  Answered =>
    \A k \in Positions(response.shipments) :
      /\ response.shipments[k].shipmentNumber = k
      /\ response.shipments[k].totalShipments = Len(response.shipments)

\* C3: when the order search answers with no candidate, or with candidates
\* none of which is an exact match, the handler answers 404, never 500.
C3_NoMatchIsNotFound ==
  (/\ pc = "done"
   /\ path \in {"not_found", "match_failed"}
   /\ ~HasExactMatch(orders, req))
  => response.statusCode = 404

\* C4: with tracking active, when at least one shipment is shipped or
\* delivered and every such shipment is delivered, orderStatus is delivered,
\* also when the order has label-only shipments besides.
C4_AllSurvivorsDelivered ==
  (/\ TrackingActive
   /\ \E k \in Positions(trackedShipments) : Scanned(trackedShipments[k])
   /\ \A k \in Positions(trackedShipments) :
        Scanned(trackedShipments[k]) => trackedShipments[k].isDelivered)
  => response.orderStatus = "delivered"

\* C5: with tracking active, when one shipment is delivered and another is
\* shipped but not delivered, orderStatus is partially_delivered.
C5_SomeDelivered ==
  (/\ TrackingActive
   /\ \E k \in Positions(trackedShipments) :
        shipmentStatus(trackedShipments[k]) = "delivered"
   /\ \E k \in Positions(trackedShipments) :
        shipmentStatus(trackedShipments[k]) = "shipped")
  => response.orderStatus = "partially_delivered"

C5_Witness ==
  /\ TrackingActive
  /\ \E k \in Positions(trackedShipments) :
       shipmentStatus(trackedShipments[k]) = "delivered"
  /\ \E k \in Positions(trackedShipments) :
       shipmentStatus(trackedShipments[k]) = "shipped"
  /\ response.orderStatus = "partially_delivered"

\* C6: with tracking active, when no shipment is delivered and at least one
\* is shipped, orderStatus is shipped, whatever the raw status and however
\* many label-only shipments the order has.
C6_NoneDeliveredSomeShipped ==
  (/\ TrackingActive
   /\ \A k \in Positions(trackedShipments) : ~trackedShipments[k].isDelivered
   /\ \E k \in Positions(trackedShipments) : trackedShipments[k].actuallyShipped)
  => response.orderStatus = "shipped"

C6_Witness ==
  /\ TrackingActive
  /\ order.orderStatus = "On_Hold"
  /\ \A k \in Positions(trackedShipments) : ~trackedShipments[k].isDelivered
  /\ \E k \in Positions(trackedShipments) : trackedShipments[k].actuallyShipped
  /\ \E k \in Positions(trackedShipments) :
       shipmentStatus(trackedShipments[k]) = "processing"
  /\ response.orderStatus = "shipped"

\* C7: with tracking active, raw status shipped and every shipment (at least
\* one) classified processing, orderStatus is awaiting_fulfillment and the
\* returned shipments list is empty.
C7_LabelsOnly ==
  (/\ TrackingActive
   /\ order.orderStatus = "shipped"
   /\ Len(trackedShipments) > 0
   /\ \A k \in Positions(trackedShipments) :
        shipmentStatus(trackedShipments[k]) = "processing")
  => /\ response.orderStatus = "awaiting_fulfillment"
     /\ response.shipments = <<>>

\* C8: a shipment one of whose Tracking API calls failed is present in the
\* response, shipped, with isDelivered equal to the platform-only heuristic,
\* and is not reported as verified.
C8_FailedVerificationFailsOpen ==
  Answered =>
    \A k \in failed :
      \E j \in Positions(response.shipments) :
        /\ response.shipments[j].shipmentId = k
        /\ response.shipments[j].isDelivered
             = checkShipmentDeliveryStatus(rawShipments[k])
        /\ response.shipments[j].status # "processing"
        /\ response.shipments[j].trackingStatus \notin {"Delivered", "InTransit"}

\* C9: once the exact match is found, no failure of Tracking API calls, for
\* any shipment and in any combination, makes the request fail: the handler
\* answers 200 with the order.
C9_TrackingFailureNeverFailsRequest ==
  (pc = "done" /\ failed # {}) => Answered

C9_Witness ==
  /\ Answered
  /\ Len(rawShipments) >= 2
  /\ failed = Positions(rawShipments)

\* C10: with tracking active, a shipment verified without error is classified
\* delivered whenever the tracking evidence reports delivered or the
\* platform's own delivery signal is true.
C10_EitherSourceAssertsDelivery ==
  TrackingActive =>
    \A k \in Positions(trackedShipments) :
      (/\ trackedShipments[k].outcome = "verified"
       /\ ~CheckDeliveryThrows(rawShipments[k])
       /\ checkShipmentDeliveryStatus(rawShipments[k]))
      => response.shipments[k].status = "delivered"

\* C11: without the tracking credential, or when the order has no shipment,
\* orderStatus of the response is the raw order status lower-cased, for
\* every raw status; the aggregate rules are not applied.
C11_RawStatusPassesThrough ==
  (/\ Answered
   /\ ~env.SEVENTEEN_TRACK_API_KEY \/ Len(rawShipments) = 0)
  => response.orderStatus = ToLower(order.orderStatus)

C11_Witness ==
  /\ Answered
  /\ ~env.SEVENTEEN_TRACK_API_KEY
  /\ order.orderStatus = "On_Hold"
  /\ Len(response.shipments) = 2
  /\ \A k \in Positions(response.shipments) : response.shipments[k].isDelivered
  /\ response.orderStatus = "on_hold"

\* C12: a register call that is answered, accepted or not, is followed by a
\* poll: a further gettrackinfo is issued for the same shipment before it is
\* classified.  (An accepted registration polls by construction, so only a
\* registration without accepted entry can break this.)
C12_RejectedRegistrationStillPolls ==
  [][(pc = "register" /\ failed' = failed)
     => (/\ pc' = "poll"
         /\ idx' = idx
         /\ calls'.query = calls.query + 1)]_vars

\* C13: for a shipment with a tracking number at most 3 queries follow the
\* registration (at most 4 queries and 1 register call in all); a further
\* call for the same shipment is issued only after an answer without latest
\* status; every poll either classifies the shipment or uses up one of the 3
\* attempts.
C13_PollLoopBounded ==
  [][/\ calls'.query <= 4
     /\ calls'.register <= 1
     /\ pc' = "poll" => attempt' < 3 /\ calls'.query = attempt' + 2
     /\ (pc' \in {"register", "poll"} /\ idx' = idx)
          => ~HasValidData(trackingData')
     /\ (pc = "poll" /\ pc' = "poll" /\ idx' = idx)
          => attempt' = attempt + 1]_vars

C13_Witness ==
  /\ pc = "poll"
  /\ attempt = 2
  /\ calls.query = 4
  /\ calls.register = 1
  /\ idx = 2

\* C16: a shipment without tracking number is pushed not shipped and not
\* delivered, no 17track call is ever in flight for it, and the loop goes on
\* to the shipments after it.
C16_NoTrackingNumberShortCircuits ==
  /\ pc \in {"query", "register", "poll"}
       => /\ Truthy(rawShipments[idx].trackingNumber)
          /\ Len(trackedShipments) = idx - 1
  /\ \A k \in Positions(trackedShipments) :
       ~Truthy(rawShipments[k].trackingNumber)
       => /\ ~trackedShipments[k].actuallyShipped
          /\ ~trackedShipments[k].isDelivered
          /\ k \notin failed
  /\ (\A k \in Positions(rawShipments) : ~Truthy(rawShipments[k].trackingNumber))
       => ~calls.tracking
  /\ TrackingActive => Len(trackedShipments) = Len(rawShipments)

C16_Witness ==
  /\ TrackingActive
  /\ Len(rawShipments) = 2
  /\ ~Truthy(rawShipments[1].trackingNumber)
  /\ ~trackedShipments[1].actuallyShipped
  /\ ~trackedShipments[1].isDelivered
  /\ trackedShipments[2].outcome = "verified"
  /\ trackedShipments[2].isDelivered

\* The spellings of the statuses C14 lists as shipped, and as delivered.
C14_ShippedSpellings ==
  {"delivered", "Delivered", "DELIVERED",
   "intransit", "InTransit", "in_transit", "IN_TRANSIT",
   "pickup", "PickUp", "picked_up", "Picked_Up",
   "undelivered", "Undelivered", "exception", "EXCEPTION", "alert", "Alert"}

C14_DeliveredSpellings == {"delivered", "Delivered", "DELIVERED"}

\* C14: where the sub-status rule does not apply, a verified shipment is
\* shipped exactly when its latest status is, in any letter case, delivered,
\* intransit, in_transit, pickup, picked_up, undelivered, exception or
\* alert, and delivered exactly when it is delivered; pending,
\* info_received, not_found, any other string and no status give neither.
C14_StatusMapping ==
  \A k \in Positions(trackedShipments) :
    (/\ trackedShipments[k].outcome = "verified"
     /\ ~SubStatusPickedUp(trackedShipments[k].subStatus))
    => /\ trackedShipments[k].actuallyShipped
            = (trackedShipments[k].trackingStatus \in C14_ShippedSpellings)
       /\ trackedShipments[k].isDelivered
            = (trackedShipments[k].trackingStatus \in C14_DeliveredSpellings)

C14_Witness ==
  /\ pc = "done"
  /\ Len(trackedShipments) = 1
  /\ trackedShipments[1].outcome = "verified"
  /\ trackedShipments[1].trackingStatus = "EXCEPTION"
  /\ trackedShipments[1].subStatus = Null
  /\ trackedShipments[1].actuallyShipped
  /\ ~trackedShipments[1].isDelivered

\* C15 as stated: a verified shipment whose sub-status contains "picked up",
\* in whatever spelling, is shipped.
C15_PickedUpForcesShipped ==
  \A k \in Positions(trackedShipments) :
    (/\ trackedShipments[k].outcome = "verified"
     /\ trackedShipments[k].subStatus
          \in {"InTransit_PickedUp", "InTransit_Picked_Up", "PICKED_UP",
               "Picked up by carrier"})
    => trackedShipments[k].actuallyShipped

\* C15, amended: a verified shipment whose answer carries a latest status
\* and whose sub-status contains "pickedup" or "picked_up", in any letter
\* case, is shipped, whatever the latest status maps to.
C15_PickedUpTokenForcesShipped ==
  \A k \in Positions(trackedShipments) :
    (/\ trackedShipments[k].outcome = "verified"
     /\ Truthy(trackedShipments[k].trackingStatus)
     /\ trackedShipments[k].subStatus
          \in {"InTransit_PickedUp", "InTransit_Picked_Up", "PICKED_UP"})
    => trackedShipments[k].actuallyShipped

C15_Witness ==
  /\ pc = "done"
  /\ Len(trackedShipments) = 1
  /\ trackedShipments[1].outcome = "verified"
  /\ trackedShipments[1].trackingStatus = "Pending"
  /\ trackedShipments[1].subStatus = "PICKED_UP"
  /\ trackedShipments[1].actuallyShipped
  /\ ~trackedShipments[1].isDelivered

\* C17: a raw shipment with a voidDate and no deliveryDate is answered not
\* delivered by the platform-only heuristic, whatever its shipmentStatus and
\* trackingStatus.
C17_VoidedIsNotDelivered ==
  Answered =>
    \A k \in Positions(rawShipments) :
      (Truthy(rawShipments[k].voidDate) /\ ~Truthy(rawShipments[k].deliveryDate))
      => /\ k <= Len(response.shipments)
         /\ ~response.shipments[k].isDelivered

C17_Witness ==
  /\ Answered
  /\ Len(rawShipments) = 1
  /\ Truthy(rawShipments[1].voidDate)
  /\ ~Truthy(rawShipments[1].deliveryDate)
  /\ rawShipments[1].shipmentStatus = "DELIVERED"
  /\ rawShipments[1].trackingStatus = "Delivered"
  /\ ~response.shipments[1].isDelivered

\* C18: without the tracking credential every raw shipment of the listing is
\* in the response, with isDelivered as the platform-only heuristic decides.
C18_PlatformOnlyListsEveryShipment ==
  (Answered /\ ~env.SEVENTEEN_TRACK_API_KEY)
  => /\ Len(response.shipments) = Len(rawShipments)
     /\ \A k \in Positions(response.shipments) :
          /\ response.shipments[k].shipmentId = rawShipments[k].shipmentId
          /\ response.shipments[k].isDelivered
               = checkShipmentDeliveryStatus(rawShipments[k])

\* C19: a call fails with an upstream error for a 429 or 5xx answer only
\* after 3 requests were sent for it.
C19_RetriedBeforeFailing ==
  (/\ call.state = "rejected"
   /\ call.value = "api_error"
   /\ call.status \in {429, 500, 503})
  => call.requests = 3

\* C20: a call is pending no longer than the timeout (to the resolution of
\* the clock): once TimeoutMs have passed since it was issued it has settled.
C20_UnansweredCallAborted ==
  call.state = "pending" => call.elapsed < TimeoutMs + TickMs

\* C21: a 404 from ShipStation is an empty collection, not a fault: on the
\* order search the caller gets the not-found response, on the shipment
\* listing a 200 with an empty shipments list.
C21_NotFoundAnswerIsEmptyResult ==
  /\ (pc = "done" /\ fulfillment.search.status = 404)
       => response = ErrorResponse(404, MsgNotFound)
  /\ (pc = "done" /\ fulfillment.list.status = 404)
       => Answered /\ response.shipments = <<>>

C21_Witness ==
  /\ pc = "done"
  /\ env.SEVENTEEN_TRACK_API_KEY
  /\ fulfillment.search.status = 200
  /\ fulfillment.list.status = 404
  /\ Answered
  /\ response.shipments = <<>>

\* C22: a POST whose body JSON.parse rejects is answered 400 and no upstream
\* call is made.
C22_MalformedBodyIsClientError ==
  (pc # "start" /\ req.httpMethod = "POST" /\ req.body.kind = "malformed")
  => /\ pc = "done"
     /\ response.statusCode = 400
     /\ calls = NoCalls

C22_Witness ==
  /\ pc = "done"
  /\ req.httpMethod = "POST"
  /\ req.body.kind = "malformed"
  /\ response = ErrorResponse(400, MsgFormat)
  /\ calls = NoCalls

\* C23: a POST whose body parses but whose orderNumber or email is missing,
\* not a string, empty, too short or not an address, or whose body is no
\* object, is answered 400 and no upstream call is made.
C23_InvalidFieldsAreClientErrors ==
  (/\ pc # "start"
   /\ req.httpMethod = "POST"
   /\ req.body.kind # "malformed"
   /\ req.body # Body("object", " ABC123 ", "A@B.com"))
  => /\ pc = "done"
     /\ response.statusCode = 400
     /\ calls = NoCalls

\* C24: for a valid request, a missing ShipStation key or secret gives the
\* configuration error before any upstream call; with both present the
\* configuration error is never returned, with or without the 17track key.
C24_MandatoryCredentials ==
  (pc # "start" /\ req = [httpMethod |-> "POST",
                          body |-> Body("object", " ABC123 ", "A@B.com")])
  => IF ~env.SHIPSTATION_API_KEY \/ ~env.SHIPSTATION_API_SECRET
     THEN /\ pc = "done"
          /\ response = ErrorResponse(500, MsgConfig)
          /\ calls = NoCalls
     ELSE /\ response.error # MsgConfig
          /\ calls.search = 1

C24_Witness ==
  /\ pc = "done"
  /\ req.body = Body("object", " ABC123 ", "A@B.com")
  /\ env.SHIPSTATION_API_KEY
  /\ ~env.SHIPSTATION_API_SECRET
  /\ env.SEVENTEEN_TRACK_API_KEY
  /\ response = ErrorResponse(500, MsgConfig)
  /\ calls = NoCalls

\* C25 as stated: a timeout of the order search or of the shipment listing
\* gives the generic failure with the generic message.
C25_FulfillmentTimeoutIsGenericFailure ==
  (/\ pc = "done"
   /\ fulfillment.search.kind = "timeout" \/ fulfillment.list.kind = "timeout")
  => /\ response.statusCode = 500
     /\ response.error = MsgGeneric

\* C25, amended: a timeout of the order search gives the generic failure
\* with the generic message as error text, the raw message showing only as
\* debug and only in development; a timeout of the shipment listing gives a
\* 200 with an empty shipments list and no error text.
C25_SearchTimeoutIsGenericFailure ==
  /\ (pc = "done" /\ fulfillment.search.kind = "timeout")
       => /\ response.statusCode = 500
          /\ response.error = MsgGeneric
          /\ response.debug = IF env.NODE_ENV = "development"
                              THEN MsgTimeout ELSE Null
  /\ (pc = "done" /\ fulfillment.list.kind = "timeout")
       => /\ Answered
          /\ response.shipments = <<>>
          /\ response.error = Null
          /\ response.debug = Null

C25_Witness ==
  /\ pc = "done"
  /\ fulfillment.search.kind = "timeout"
  /\ env.NODE_ENV = "development"
  /\ response.statusCode = 500
  /\ response.error = MsgGeneric
  /\ response.debug = MsgTimeout

C28_SecondInvocationAnswersAlike ==
  (previous.run = 2 /\ pc = "done") => response = previous.response

C28_Witness ==
  /\ previous.run = 2
  /\ pc = "done"
  /\ Answered
  /\ Len(rawShipments) = 2
  /\ upstream.tracking[1].registered = "by_handler"
  /\ response.shipments[1].status = "shipped"
  /\ response = previous.response

\* C29: the response is the same 404 when the search returns no candidate,
\* when a candidate has the order number but not the email, and when a
\* candidate has the email but not the order number.
C29_NotFoundRevealsNothing ==
  (/\ pc = "done"
   /\ path \in {"not_found", "match_failed"}
   /\ \/ Len(orders) = 0
      \/ \E k \in Positions(orders) :
           /\ orders[k].orderNumber = "ABC123"
           /\ orders[k].customerEmail # "a@b.com"
      \/ \E k \in Positions(orders) :
           /\ orders[k].orderNumber # "ABC123"
           /\ orders[k].customerEmail = "a@b.com"
   /\ ~HasExactMatch(orders, req))
  => response = ErrorResponse(404, MsgNotFound)

\* C30: OPTIONS is answered 200 with an empty body and any method other
\* than POST and OPTIONS 405, whatever the body, which is not parsed, and
\* without an upstream call.
C30_MethodCheckComesFirst ==
  /\ (pc # "start" /\ req.httpMethod = "OPTIONS")
       => /\ pc = "done"
          /\ response = PreflightResponse
          /\ calls = NoCalls
  /\ (pc # "start" /\ req.httpMethod \notin {"POST", "OPTIONS"})
       => /\ pc = "done"
          /\ response = ErrorResponse(405, MsgMethod)
          /\ calls = NoCalls

C30_Witness ==
  /\ pc = "done"
  /\ req.httpMethod = "GET"
  /\ req.body.kind = "malformed"
  /\ response = ErrorResponse(405, MsgMethod)
  /\ calls = NoCalls

\* C31: the carrier translation never fails: for every carrier code, unknown
\* strings and null included, it returns a mapped id or the auto-detect
\* value and raises no error.
C31_CarrierTranslationNeverFails ==
  carrier.applied
  => /\ ~carrier.raised
     /\ carrier.id \in CarrierIds \cup {AutoDetect}

\* C32: with tracking active, for an order whose raw status is not shipped
\* and whose shipments (at least one) are all unscanned, the raw status is
\* returned unchanged (lower-cased) and not overridden.
C32_OverrideOnlyWhenShipped ==
  (/\ TrackingActive
   /\ ToLower(order.orderStatus) # "shipped"
   /\ Len(trackedShipments) > 0
   /\ \A k \in Positions(trackedShipments) :
        shipmentStatus(trackedShipments[k]) = "processing")
  => response.orderStatus = ToLower(order.orderStatus)

\* C33: the shipment listing is issued only after the order search returned
\* the exact match, 17track calls only after the listing returned a
\* non-empty list and only with the 17track key; a request answered 400, 405
\* or with the configuration error has issued no upstream call.
C33_UpstreamCallOrder ==
  /\ calls.list = 1
       => /\ calls.search = 1
          /\ fulfillment.search = Answer("response", 200, TRUE)
          /\ IsExactMatch(order, req)
  /\ (calls.tracking \/ pc \in {"query", "register", "poll"})
       => /\ calls.list = 1
          /\ fulfillment.list = Answer("response", 200, TRUE)
          /\ Len(rawShipments) > 0
          /\ env.SEVENTEEN_TRACK_API_KEY
  /\ (/\ pc = "done"
      /\ \/ response.statusCode \in {400, 405}
         \/ response.error = MsgConfig)
       => calls = NoCalls

C33_Witness ==
  /\ TrackingActive
  /\ calls.search = 1
  /\ calls.list = 1
  /\ calls.tracking
  /\ IsExactMatch(order, req)
  /\ Len(rawShipments) = 2

\* C34: when the first gettrackinfo for a number returns a latest status,
\* the shipment is classified from that answer and neither a register call
\* nor a poll query is issued for it: one 17track call for the shipment.
C34_ValidFirstAnswerEndsVerification ==
  [][pc = "query" =>
       /\ calls.query = 1
       /\ calls.register = 0
       /\ LET u == upstream.tracking[idx] IN
          (/\ u.up
           /\ u.registered # "no"
           /\ u.info.accepted
           /\ Truthy(u.info.status))
          => /\ pc' \notin {"register", "poll"}
             /\ pc' = "query" => idx' > idx
             /\ trackedShipments'[idx]
                  = VerifiedShipment(rawShipments[idx], TRUE, u.info)
             /\ upstream' = upstream]_vars

C34_Witness ==
  /\ pc = "done"
  /\ TrackingActive
  /\ Len(rawShipments) = 1
  /\ upstream.tracking[1].up
  /\ upstream.tracking[1].registered = "yes"
  /\ upstream.tracking[1].info.status = "Delivered"
  /\ calls.tracking
  /\ trackedShipments[1].outcome = "verified"
  /\ trackedShipments[1].trackingStatus = "Delivered"
  /\ response.shipments[1].status = "delivered"

\* C35: every upstream shipment is at most once in the returned list and the
\* returned shipments keep the order of the listing, on every path.
C35_NoDuplicatesStableOrder ==
  Answered =>
    \A j \in Positions(response.shipments) :
      \A k \in Positions(response.shipments) :
        j < k => response.shipments[j].shipmentId < response.shipments[k].shipmentId

\* C36: when the shipment listing fails (timeout, network error, a status
\* other than 200 and 404, an unparsable body) the answer is a 200 with no
\* shipments and the raw status lower-cased, and no 17track call is issued.
C36_ListingFailureIsNotFatal ==
  (/\ pc = "done"
   /\ \/ fulfillment.list.kind \in {"timeout", "network"}
      \/ /\ fulfillment.list.kind = "response"
         /\ \/ fulfillment.list.status \notin {200, 404}
            \/ fulfillment.list.status = 200 /\ ~fulfillment.list.parses)
  => /\ response.statusCode = 200
     /\ response.body = "order"
     /\ response.shipments = <<>>
     /\ response.orderStatus = ToLower(order.orderStatus)
     /\ ~calls.tracking
     /\ calls.list = 1

C36_Witness ==
  /\ pc = "done"
  /\ env.SEVENTEEN_TRACK_API_KEY
  /\ fulfillment.list = Answer("response", 503, FALSE)
  /\ order.orderStatus = "On_Hold"
  /\ response.statusCode = 200
  /\ response.orderStatus = "on_hold"
  /\ response.shipments = <<>>
  /\ ~calls.tracking

\* C37: every record of getShipmentsWithTracking that is delivered is
\* shipped, whichever push built it; no shipment is classified delivered
\* while it counts as not scanned.
C37_DeliveredImpliesShipped ==
  \A k \in Positions(trackedShipments) :
    /\ trackedShipments[k].isDelivered => trackedShipments[k].actuallyShipped
    /\ shipmentStatus(trackedShipments[k]) = "delivered"
         => trackedShipments[k].actuallyShipped

C37_Witness ==
  /\ Len(trackedShipments) = 2
  /\ trackedShipments[1].outcome = "error"
  /\ trackedShipments[1].isDelivered
  /\ trackedShipments[1].actuallyShipped
  /\ trackedShipments[2].outcome = "verified"
  /\ trackedShipments[2].isDelivered
  /\ trackedShipments[2].actuallyShipped

====
